---- MODULE Spec2Model ----
(***************************************************************************)
(* Model of sudoku_game.py: the grid utilities, the backtracking solver,   *)
(* the randomized generator, the SudokuGame session and its persistence.   *)
(*                                                                         *)
(* The program's grid is 9x9 with 3x3 boxes.  Every grid operator below    *)
(* takes the side n from the grid it is given and derives the box from n   *)
(* (BoxH, BoxW), so the same definitions run on scaled-down grids: 4x4     *)
(* with 2x2 boxes, and 3x3 with 1x3 boxes where the recursion of           *)
(* generate_full_solution is explored step by step.                        *)
(***************************************************************************)
EXTENDS Integers, Sequences, FiniteSets, TLC

VARIABLES
    \* generate_full_solution (fill recursion)
    fgrid,      \* grid, the closure variable of fill()
    nums,       \* nums, the single digit list shared by every fill() frame
    fstack,     \* the live fill() frames, outermost first: [r, c, i]
    fpc,        \* "call" | "loop" | "done" | "idle"
    fres,       \* what the outermost fill() returned ("none" while running)
    \* generate_puzzle
    difficulty, \* the difficulty argument
    solution,   \* solution
    puzzle,     \* puzzle, the working grid of the removal loop
    attempts,   \* attempts
    iters,      \* iterations of the removal loop run so far (history)
    gpc,        \* "start" | "loop" | "done" | "idle"
    \* the session (SudokuGame) and what was last called on it
    game,       \* the SudokuGame object: a record of its fields
    last,       \* the last call: [op, ...] (history, not program state)
    trail,      \* cells and notes before each of the latest consecutive
                \* set_cell calls on non-given cells (history)
    \* the files
    disk,       \* what each file holds
    unwritable, \* the files open(..., "w") fails on
    result,     \* the last persistence call and how it ended (history)
    \* main() and the timer
    show_win_overlay, \* show_win_overlay of main()
    hinted,     \* hint() calls that returned True in this session (history)
    timer,      \* the timer fields of the SudokuGame object: start_time,
                \* total_paused, pause_start, paused
    now,        \* time.time()
    unpaused,   \* wall-clock time spent un-paused since start (history)
    autosaved,  \* when auto_save last wrote its file, and the un-paused
                \* time of the session at that moment (history)
    \* one call of a grid function on a grid of any content
    pgrid,      \* the grid argument, as the call leaves it
    pout        \* the last call: its arguments and what it returned (history)

fillVars == <<fgrid, nums, fstack, fpc, fres>>
genVars == <<difficulty, solution, puzzle, attempts, iters, gpc>>
sessVars == <<game, last, trail>>
storeVars == <<disk, unwritable, result>>
mainVars == <<show_win_overlay, hinted>>
clockVars == <<timer, now, unpaused, autosaved>>
pureVars == <<pgrid, pout>>
vars == <<fgrid, nums, fstack, fpc, fres,
          difficulty, solution, puzzle, attempts, iters, gpc,
          game, last, trail, disk, unwritable, result,
          show_win_overlay, hinted, timer, now, unpaused, autosaved,
          pgrid, pout>>

\* Python's None, where a grid, a cell or an object is expected.
None == <<>>

----------------------------------------------------------------------------
(* Grids: grid[r][c], 0-based as in the source, 0 = empty.                 *)

\* Side of the fill-recursion grid (GRID_SIZE = 9 in the source, scaled).
FillN == 3

GridSize(grid) == Cardinality(DOMAIN grid)
Idx(n) == 0..(n - 1)
Digits(n) == 1..n

\* The box of the source is 3x3 on a side of 9: the largest h with h*h <= n
\* dividing n, and w = n / h.
BoxHeights == [n \in 1..9 |->
                 CHOOSE h \in 1..n :
                    /\ h * h <= n /\ n % h = 0
                    /\ \A k \in 1..n : (k * k <= n /\ n % k = 0) => k <= h]
BoxH(n) == BoxHeights[n]
BoxW(n) == n \div BoxH(n)

\* br = 3*(r//3), bc = 3*(c//3) and the ranges br..br+2, bc..bc+2 of valid.
BoxRows == [n \in 1..9 |-> [r \in Idx(n) |->
              (BoxH(n) * (r \div BoxH(n)))..(BoxH(n) * (r \div BoxH(n)) + BoxH(n) - 1)]]
BoxCols == [n \in 1..9 |-> [c \in Idx(n) |->
              (BoxW(n) * (c \div BoxW(n)))..(BoxW(n) * (c \div BoxW(n)) + BoxW(n) - 1)]]

EmptyGrid(n) == [r \in Idx(n) |-> [c \in Idx(n) |-> 0]]

SetAt(grid, r, c, v) == [grid EXCEPT ![r][c] = v]

RECURSIVE FindEmptyFrom(_, _, _)
\* The scan of find_empty from cell (r, c) on, row by row.
FindEmptyFrom(grid, r, c) ==
    IF r >= GridSize(grid) THEN None
    ELSE IF c >= GridSize(grid) THEN FindEmptyFrom(grid, r + 1, 0)
    ELSE IF grid[r][c] = 0 THEN <<r, c>>
    ELSE FindEmptyFrom(grid, r, c + 1)

\* find_empty: the first empty cell in row-major order, or None.
find_empty(grid) == FindEmptyFrom(grid, 0, 0)

\* valid: val occurs nowhere in row r, column c or the box of (r, c);
\* the cell (r, c) itself is read like any other.
valid(grid, r, c, val) ==
    /\ \A i \in DOMAIN grid : ~(grid[r][i] = val \/ grid[i][c] = val)
    /\ \A i \in BoxRows[GridSize(grid)][r] :
          \A j \in BoxCols[GridSize(grid)][c] : grid[i][j] # val

IsFull(grid) == find_empty(grid) = None

\* No digit repeated in a row, a column or a box.
NoRepeat(grid) ==
    LET n == GridSize(grid) IN
    \A r \in Idx(n), c \in Idx(n) :
        grid[r][c] # 0 => valid(SetAt(grid, r, c, 0), r, c, grid[r][c])

Shuffles(n) ==
    {p \in [1..n -> Digits(n)] : \A i, j \in 1..n : p[i] = p[j] => i = j}

----------------------------------------------------------------------------
(* generate_full_solution: fill() as a recursion on an explicit stack.     *)
(* Each frame keeps its cell (r, c) and the index i of its `for val in     *)
(* nums` iterator; the iterator reads nums[i] from the one shared list,    *)
(* whatever the last random.shuffle left there.                            *)

Top == fstack[Len(fstack)]
Pop == SubSeq(fstack, 1, Len(fstack) - 1)
SetTop(f) == [fstack EXCEPT ![Len(fstack)] = f]

\* grid = [[0]*9 for _ in range(9)]; nums = list(range(1,10)); fill()
FillStart ==
    /\ fgrid = EmptyGrid(FillN)
    /\ nums = [i \in 1..FillN |-> i]
    /\ fstack = <<>>
    /\ fpc = "call"
    /\ fres = "none"

\* fill() entered on a full grid: `if not empty: return True`; every caller
\* then returns True as well (`if fill(): return True`).
FillReturnTrue ==
    /\ fpc = "call"
    /\ find_empty(fgrid) = None
    /\ fstack' = <<>>
    /\ fpc' = "done"
    /\ fres' = "True"
    /\ UNCHANGED <<fgrid, nums, genVars, sessVars, storeVars, mainVars,
                   clockVars, pureVars>>

\* fill() entered with an empty cell: random.shuffle(nums), any outcome,
\* and the for loop starts at index 0.
FillShuffle ==
    /\ fpc = "call"
    /\ find_empty(fgrid) # None
    /\ \E p \in Shuffles(GridSize(fgrid)) : nums' = p
    /\ fstack' = Append(fstack, [r |-> find_empty(fgrid)[1],
                                 c |-> find_empty(fgrid)[2], i |-> 0])
    /\ fpc' = "loop"
    /\ UNCHANGED <<fgrid, fres, genVars, sessVars, storeVars, mainVars,
                   clockVars, pureVars>>

\* One iteration whose digit is valid: place it and call fill().
FillTry ==
    /\ fpc = "loop"
    /\ Top.i < GridSize(fgrid)
    /\ valid(fgrid, Top.r, Top.c, nums[Top.i + 1])
    /\ fgrid' = SetAt(fgrid, Top.r, Top.c, nums[Top.i + 1])
    /\ fpc' = "call"
    /\ UNCHANGED <<nums, fstack, fres, genVars, sessVars, storeVars, mainVars,
                   clockVars, pureVars>>

\* One iteration whose digit is not valid: next index.
FillSkip ==
    /\ fpc = "loop"
    /\ Top.i < GridSize(fgrid)
    /\ ~valid(fgrid, Top.r, Top.c, nums[Top.i + 1])
    /\ fstack' = SetTop([Top EXCEPT !.i = @ + 1])
    /\ UNCHANGED <<fgrid, nums, fpc, fres, genVars, sessVars, storeVars,
                   mainVars, clockVars, pureVars>>

\* The for loop ran off the end of nums: `return False`.  The caller, if
\* any, resets its cell and goes on with its own iterator at the next index
\* of nums as it is now; without a caller generate_full_solution returns.
FillReturnFalse ==
    /\ fpc = "loop"
    /\ Top.i >= GridSize(fgrid)
    /\ IF Len(fstack) = 1
       THEN /\ fstack' = <<>>
            /\ fpc' = "done"
            /\ fres' = "False"
            /\ UNCHANGED fgrid
       ELSE LET caller == fstack[Len(fstack) - 1] IN
            /\ fgrid' = SetAt(fgrid, caller.r, caller.c, 0)
            /\ fstack' = [Pop EXCEPT ![Len(fstack) - 1] =
                              [caller EXCEPT !.i = @ + 1]]
            /\ UNCHANGED <<fpc, fres>>
    /\ UNCHANGED <<nums, genVars, sessVars, storeVars, mainVars, clockVars,
                   pureVars>>

FillIdle ==
    /\ fgrid = None /\ nums = None /\ fstack = <<>>
    /\ fpc = "idle" /\ fres = "none"

----------------------------------------------------------------------------
(* The solver.  The source works on the grid in place; here each function  *)
(* returns the grid as it leaves it together with its result.              *)

RECURSIVE solve_backtrack_NoReset(_), SolveLoop_NoReset(_, _, _, _)
\* solve_backtrack without `grid[r][c] = 0` after a failed branch.
solve_backtrack_NoReset(grid) ==
    LET e == find_empty(grid) IN
    IF e = None THEN [ok |-> TRUE, grid |-> grid]
    ELSE SolveLoop_NoReset(grid, e[1], e[2], 1)

SolveLoop_NoReset(grid, r, c, val) ==
    IF val > GridSize(grid) THEN [ok |-> FALSE, grid |-> grid]
    ELSE IF valid(SetAt(grid, r, c, 0), r, c, val)
         THEN LET res == solve_backtrack_NoReset(SetAt(grid, r, c, val)) IN
              IF res.ok THEN res
              ELSE SolveLoop_NoReset(res.grid, r, c, val + 1)
         ELSE SolveLoop_NoReset(grid, r, c, val + 1)

RECURSIVE solve_backtrack(_), SolveLoop(_, _, _, _)
\* solve_backtrack: [ok, grid].
solve_backtrack(grid) ==
    LET e == find_empty(grid) IN
    IF e = None THEN [ok |-> TRUE, grid |-> grid]
    ELSE SolveLoop(grid, e[1], e[2], 1)

\* `for val in range(1, 10)` of solve_backtrack, from val on.
SolveLoop(grid, r, c, val) ==
    IF val > GridSize(grid) THEN [ok |-> FALSE, grid |-> grid]
    ELSE IF valid(grid, r, c, val)
         THEN LET res == solve_backtrack(SetAt(grid, r, c, val)) IN
              IF res.ok THEN res
              ELSE SolveLoop(SetAt(res.grid, r, c, 0), r, c, val + 1)
         ELSE SolveLoop(grid, r, c, val + 1)

\* count_solutions stopping at the first solution found.
count_solutions_FirstOnly(grid, limit) ==
    [count |-> IF solve_backtrack(grid).ok THEN 1 ELSE 0, grid |-> grid]

RECURSIVE count_solutions(_, _), CountLoop(_, _, _, _, _, _)
\* count_solutions: [count, grid].
count_solutions(grid, limit) ==
    LET e == find_empty(grid) IN
    IF e = None THEN [count |-> 1, grid |-> grid]
    ELSE CountLoop(grid, e[1], e[2], 1, 0, limit)

\* `for val in range(1, 10)` of count_solutions, from val on, count so far.
CountLoop(grid, r, c, val, count, limit) ==
    IF val > GridSize(grid) THEN [count |-> count, grid |-> grid]
    ELSE IF valid(grid, r, c, val)
         THEN LET res == count_solutions(SetAt(grid, r, c, val), limit) IN
              IF count + res.count >= limit
              THEN [count |-> count + res.count,
                    grid |-> SetAt(res.grid, r, c, 0)]
              ELSE CountLoop(SetAt(res.grid, r, c, 0), r, c, val + 1,
                             count + res.count, limit)
         ELSE CountLoop(grid, r, c, val + 1, count, limit)

RECURSIVE Completions(_)
\* Every full grid without a repeated digit that extends grid (the meaning
\* of "a solution of grid", independent of the solver's search).
Completions(grid) ==
    LET e == find_empty(grid) IN
    IF e = None THEN (IF NoRepeat(grid) THEN {grid} ELSE {})
    ELSE UNION {Completions(SetAt(grid, e[1], e[2], v)) :
                   v \in {d \in Digits(GridSize(grid)) :
                              valid(grid, e[1], e[2], d)}}

ClueCount(grid) ==
    Cardinality({p \in Idx(GridSize(grid)) \X Idx(GridSize(grid)) :
                    grid[p[1]][p[2]] # 0})

----------------------------------------------------------------------------
(* generate_puzzle.                                                        *)

\* Side of the generator's grid (GRID_SIZE = 9 in the source, scaled).
GenN == 4

\* The attempt budget: 8000 for insane and 5000 otherwise in the source.
MaxAttemptsInsane == 4
MaxAttemptsOther == 2

Difficulties == {"easy", "medium", "hard", "insane", "other"}

\* targets = {"easy":36,"medium":32,"hard":28,"insane":22} of 81 cells,
\* scaled to the 16 cells of the generator's grid.
targets == [easy |-> 15, medium |-> 14, hard |-> 13, insane |-> 12]

\* targets.get(difficulty, 32)
Target(d) == IF d \in DOMAIN targets THEN targets[d] ELSE targets["medium"]

\* 8000 if difficulty == "insane" else 5000
max_attempts(d) == IF d = "insane" THEN MaxAttemptsInsane ELSE MaxAttemptsOther

\* What generate_full_solution() can return: a completed grid (any of them,
\* here with the digits named so that the first row reads 1..n), or, when
\* the outermost fill() returns False (SpecFill), the grid as fill() left
\* it, which is all zeros.
FullSolutionOutcomes ==
    Completions([EmptyGrid(GenN) EXCEPT ![0] = [c \in Idx(GenN) |-> c + 1]])
        \cup {EmptyGrid(GenN)}

\* generate_puzzle(difficulty) called.
GenStart ==
    /\ difficulty \in Difficulties
    /\ solution = None
    /\ puzzle = None
    /\ attempts = 0
    /\ iters = 0
    /\ gpc = "start"

\* solution = generate_full_solution(); puzzle = deepcopy(solution);
\* attempts = 0.
GenSolution ==
    /\ gpc = "start"
    /\ solution' \in FullSolutionOutcomes
    /\ puzzle' = solution'
    /\ attempts' = 0
    /\ gpc' = "loop"
    /\ UNCHANGED <<difficulty, iters, fillVars, sessVars, storeVars, mainVars,
                   clockVars, pureVars>>

\* The while condition of the removal loop.
LoopCond ==
    attempts < max_attempts(difficulty) /\ ClueCount(puzzle) > Target(difficulty)

GenCells == Idx(GridSize(puzzle)) \X Idx(GridSize(puzzle))

\* GenPickEmpty with the `continue` taken before attempts is counted.
GenPickEmpty_NotCounted ==
    /\ gpc = "loop" /\ LoopCond
    /\ \E p \in GenCells :
          /\ puzzle[p[1]][p[2]] = 0
          /\ attempts' = attempts
    /\ iters' = iters + 1
    /\ UNCHANGED <<difficulty, solution, puzzle, gpc, fillVars, sessVars,
                   storeVars, mainVars, clockVars, pureVars>>

\* An iteration whose random.choice hits an empty cell.
GenPickEmpty ==
    /\ gpc = "loop" /\ LoopCond
    /\ \E p \in GenCells :
          /\ puzzle[p[1]][p[2]] = 0
          /\ attempts' = attempts + 1
    /\ iters' = iters + 1
    /\ UNCHANGED <<difficulty, solution, puzzle, gpc, fillVars, sessVars,
                   storeVars, mainVars, clockVars, pureVars>>

\* An iteration whose random.choice hits a filled cell and clears it for
\* good: the cleared grid (a deepcopy of it goes to count_solutions) has
\* exactly one solution.
GenRemove ==
    /\ gpc = "loop" /\ LoopCond
    /\ \E p \in GenCells :
          /\ puzzle[p[1]][p[2]] # 0
          /\ puzzle' = SetAt(puzzle, p[1], p[2], 0)
          /\ count_solutions(puzzle', 2).count = 1
    /\ attempts' = attempts + 1
    /\ iters' = iters + 1
    /\ UNCHANGED <<difficulty, solution, gpc, fillVars, sessVars, storeVars,
                   mainVars, clockVars, pureVars>>

\* An iteration whose random.choice hits a filled cell and puts the digit
\* back: the cleared grid does not have exactly one solution.
GenRestore ==
    /\ gpc = "loop" /\ LoopCond
    /\ \E p \in GenCells :
          LET backup == puzzle[p[1]][p[2]]
              cleared == SetAt(puzzle, p[1], p[2], 0)
          IN /\ backup # 0
             /\ puzzle' = SetAt(cleared, p[1], p[2], backup)
             /\ count_solutions(cleared, 2).count # 1
    /\ attempts' = attempts + 1
    /\ iters' = iters + 1
    /\ UNCHANGED <<difficulty, solution, gpc, fillVars, sessVars, storeVars,
                   mainVars, clockVars, pureVars>>

\* The while condition is false: return puzzle, solution.
GenReturn ==
    /\ gpc = "loop" /\ ~LoopCond
    /\ gpc' = "done"
    /\ UNCHANGED <<difficulty, solution, puzzle, attempts, iters, fillVars,
                   sessVars, storeVars, mainVars, clockVars, pureVars>>

GenIdle ==
    /\ difficulty = None /\ solution = None /\ puzzle = None
    /\ attempts = 0 /\ iters = 0 /\ gpc = "idle"

----------------------------------------------------------------------------
(* The session: class SudokuGame.  An object is a record of its fields;    *)
(* each method is an operator from the object to the object it leaves.     *)
(* self.animations only drives the drawing and is left out.                *)

\* Side of the session's grid (GRID_SIZE = 9 in the source, scaled).
SessionN == 4

\* self.hints_left = 3
HintsBudget == 3

\* The longest undo history explored.
MaxMoves == 2

\* The largest digit the player types, and the last row the cursor visits.
MaxInput == 1
MaxRow == 0

\* Every note set empty: [[set() for _ in range(9)] for __ in range(9)]
NoNotes(n) == [r \in Idx(n) |-> [c \in Idx(n) |-> {}]]

RECURSIVE ClearCells(_, _)
\* grid with the cells of the set holes emptied.
ClearCells(grid, holes) ==
    IF holes = {} THEN grid
    ELSE LET p == CHOOSE q \in holes : TRUE
         IN ClearCells(SetAt(grid, p[1], p[2], 0), holes \ {p})

\* The cells emptied in the sample puzzles.
SampleHoles == {{<<0, 0>>, <<0, 1>>}, {<<0, 2>>, <<1, 2>>}}

\* Some of the pairs generate_puzzle(d) can return: a completed grid with
\* the cells of a sample emptied, kept when the loop of generate_puzzle
\* can end there (one solution, and no fewer clues than the target).
GeneratedSamples(d) ==
    LET full == solve_backtrack(EmptyGrid(SessionN)).grid IN
    {pz \in {[puzzle |-> ClearCells(full, h), solution |-> full] :
                h \in SampleHoles} :
        /\ count_solutions(pz.puzzle, 2).count = 1
        /\ ClueCount(pz.puzzle) >= Target(d)}

\* SudokuGame.__init__ once puzzle and solution are known.
NewGame(pz, sol, d) ==
    [givens |-> pz,
     solution |-> sol,
     cells |-> pz,
     notes |-> NoNotes(GridSize(pz)),
     difficulty |-> d,
     hints_left |-> HintsBudget,
     move_stack |-> <<>>,
     redo_stack |-> <<>>]

\* SudokuGame(puzzle, solution, difficulty): the objects __init__ can build;
\* without a puzzle or without a solution it takes both from
\* generate_puzzle(difficulty).
SudokuGame(pz, sol, d) ==
    IF pz = None \/ sol = None
    THEN {NewGame(gen.puzzle, gen.solution, d) : gen \in GeneratedSamples(d)}
    ELSE {NewGame(pz, sol, d)}

is_given(g, r, c) == g.givens[r][c] # 0

\* An entry of move_stack / redo_stack:
\* (r, c, old_val, old_notes, new_val, is_note).
Move(r, c, old_val, old_notes, new_val, is_note) ==
    [r |-> r, c |-> c, old_val |-> old_val, old_notes |-> old_notes,
     new_val |-> new_val, is_note |-> is_note]

\* set_cell without the is_given check.
set_cell_NoGivenCheck(g, r, c, val, is_note) ==
    LET old_val == g.cells[r][c]
        old_notes == g.notes[r][c]
        g1 == [g EXCEPT
                 !.move_stack = Append(@, Move(r, c, old_val, old_notes,
                                               val, is_note)),
                 !.redo_stack = <<>>]
    IN IF is_note
       THEN IF val \in g1.notes[r][c]
            THEN [g1 EXCEPT !.notes[r][c] = @ \ {val}]
            ELSE [g1 EXCEPT !.notes[r][c] = @ \cup {val}]
       ELSE [g1 EXCEPT !.cells[r][c] = val, !.notes[r][c] = {}]

\* set_cell without self.redo_stack.clear().
set_cell_RedoKept(g, r, c, val, is_note) ==
    IF is_given(g, r, c) THEN g
    ELSE LET old_val == g.cells[r][c]
             old_notes == g.notes[r][c]
             g1 == [g EXCEPT
                      !.move_stack = Append(@, Move(r, c, old_val, old_notes,
                                                    val, is_note))]
         IN IF is_note
            THEN IF val \in g1.notes[r][c]
                 THEN [g1 EXCEPT !.notes[r][c] = @ \ {val}]
                 ELSE [g1 EXCEPT !.notes[r][c] = @ \cup {val}]
            ELSE [g1 EXCEPT !.cells[r][c] = val, !.notes[r][c] = {}]

set_cell(g, r, c, val, is_note) ==
    IF is_given(g, r, c) THEN g
    ELSE LET old_val == g.cells[r][c]
             old_notes == g.notes[r][c]
             g1 == [g EXCEPT
                      !.move_stack = Append(@, Move(r, c, old_val, old_notes,
                                                    val, is_note)),
                      !.redo_stack = <<>>]
         IN IF is_note
            THEN IF val \in g1.notes[r][c]
                 THEN [g1 EXCEPT !.notes[r][c] = @ \ {val}]
                 ELSE [g1 EXCEPT !.notes[r][c] = @ \cup {val}]
            ELSE [g1 EXCEPT !.cells[r][c] = val, !.notes[r][c] = {}]

\* undo without `self.redo_stack.append(...)`.
undo_NoPush(g) ==
    IF g.move_stack = <<>> THEN g
    ELSE LET m == g.move_stack[Len(g.move_stack)]
             g1 == [g EXCEPT !.move_stack = SubSeq(@, 1, Len(@) - 1)]
         IN IF m.is_note
            THEN [g1 EXCEPT !.notes[m.r][m.c] = m.old_notes]
            ELSE [g1 EXCEPT !.cells[m.r][m.c] = m.old_val,
                            !.notes[m.r][m.c] = m.old_notes]

\* undo leaving the notes alone when it takes back a note.
undo_NotesKept(g) ==
    IF g.move_stack = <<>> THEN g
    ELSE LET m == g.move_stack[Len(g.move_stack)]
             g1 == [g EXCEPT
                      !.move_stack = SubSeq(@, 1, Len(@) - 1),
                      !.redo_stack = Append(@, Move(m.r, m.c,
                                         g.cells[m.r][m.c], g.notes[m.r][m.c],
                                         m.new_val, m.is_note))]
         IN IF m.is_note
            THEN g1
            ELSE [g1 EXCEPT !.cells[m.r][m.c] = m.old_val,
                            !.notes[m.r][m.c] = m.old_notes]

undo(g) ==
    IF g.move_stack = <<>> THEN g
    ELSE LET m == g.move_stack[Len(g.move_stack)]
             g1 == [g EXCEPT
                      !.move_stack = SubSeq(@, 1, Len(@) - 1),
                      !.redo_stack = Append(@, Move(m.r, m.c,
                                         g.cells[m.r][m.c], g.notes[m.r][m.c],
                                         m.new_val, m.is_note))]
         IN IF m.is_note
            THEN [g1 EXCEPT !.notes[m.r][m.c] = m.old_notes]
            ELSE [g1 EXCEPT !.cells[m.r][m.c] = m.old_val,
                            !.notes[m.r][m.c] = m.old_notes]

\* redo whose note branch adds new_val instead of toggling it.
redo_NoteAdded(g) ==
    IF g.redo_stack = <<>> THEN g
    ELSE LET m == g.redo_stack[Len(g.redo_stack)]
             g1 == [g EXCEPT
                      !.redo_stack = SubSeq(@, 1, Len(@) - 1),
                      !.move_stack = Append(@, Move(m.r, m.c,
                                         g.cells[m.r][m.c], g.notes[m.r][m.c],
                                         m.new_val, m.is_note))]
         IN IF m.is_note
            THEN [g1 EXCEPT !.notes[m.r][m.c] = @ \cup {m.new_val}]
            ELSE [g1 EXCEPT !.cells[m.r][m.c] = m.new_val,
                            !.notes[m.r][m.c] = {}]

redo(g) ==
    IF g.redo_stack = <<>> THEN g
    ELSE LET m == g.redo_stack[Len(g.redo_stack)]
             g1 == [g EXCEPT
                      !.redo_stack = SubSeq(@, 1, Len(@) - 1),
                      !.move_stack = Append(@, Move(m.r, m.c,
                                         g.cells[m.r][m.c], g.notes[m.r][m.c],
                                         m.new_val, m.is_note))]
         IN IF m.is_note
            THEN IF m.new_val \in g1.notes[m.r][m.c]
                 THEN IF m.new_val \in g1.notes[m.r][m.c]
                      THEN [g1 EXCEPT !.notes[m.r][m.c] = @ \ {m.new_val}]
                      ELSE [g1 EXCEPT !.notes[m.r][m.c] = @ \cup {m.new_val}]
                 ELSE [g1 EXCEPT !.notes[m.r][m.c] = @ \cup {m.new_val}]
            ELSE [g1 EXCEPT !.cells[m.r][m.c] = m.new_val,
                            !.notes[m.r][m.c] = {}]

\* hint without the hints_left test.
hint_NoBudgetCheck(g, r, c) ==
    IF is_given(g, r, c)
    THEN [ret |-> FALSE, game |-> g]
    ELSE LET val == g.solution[r][c]
             g1 == set_cell(g, r, c, val, FALSE)
         IN [ret |-> TRUE, game |-> [g1 EXCEPT !.hints_left = @ - 1]]

\* hint without `self.hints_left -= 1`.
hint_NoDecrement(g, r, c) ==
    IF g.hints_left <= 0 \/ is_given(g, r, c)
    THEN [ret |-> FALSE, game |-> g]
    ELSE [ret |-> TRUE, game |-> set_cell(g, r, c, g.solution[r][c], FALSE)]

\* hint: [ret, game].
hint(g, r, c) ==
    IF g.hints_left <= 0 \/ is_given(g, r, c)
    THEN [ret |-> FALSE, game |-> g]
    ELSE LET val == g.solution[r][c]
             g1 == set_cell(g, r, c, val, FALSE)
         IN [ret |-> TRUE, game |-> [g1 EXCEPT !.hints_left = @ - 1]]

is_complete(g) ==
    \A r \in Idx(GridSize(g.cells)), c \in Idx(GridSize(g.cells)) :
        g.cells[r][c] = g.solution[r][c]

RECURSIVE ConflictLoop(_, _, _)
\* The two loops of check_conflicts from cell number k on, in row-major
\* order: the cell is cleared, tested with valid and put back.
ConflictLoop(cells, conflicts, k) ==
    LET n == GridSize(cells)
        r == k \div n
        c == k % n
    IN IF k >= n * n THEN [conflicts |-> conflicts, cells |-> cells]
       ELSE IF cells[r][c] = 0 THEN ConflictLoop(cells, conflicts, k + 1)
       ELSE LET val == cells[r][c]
                cleared == SetAt(cells, r, c, 0)
                marked == IF ~valid(cleared, r, c, val)
                          THEN SetAt(conflicts, r, c, TRUE)
                          ELSE conflicts
            IN ConflictLoop(SetAt(cleared, r, c, val), marked, k + 1)

RECURSIVE ConflictLoop_NoClear(_, _, _)
\* The loops of check_conflicts without `self.cells[r][c]=0`.
ConflictLoop_NoClear(cells, conflicts, k) ==
    LET n == GridSize(cells)
        r == k \div n
        c == k % n
    IN IF k >= n * n THEN [conflicts |-> conflicts, cells |-> cells]
       ELSE IF cells[r][c] = 0
            THEN ConflictLoop_NoClear(cells, conflicts, k + 1)
       ELSE ConflictLoop_NoClear(cells,
                IF ~valid(cells, r, c, cells[r][c])
                THEN SetAt(conflicts, r, c, TRUE) ELSE conflicts,
                k + 1)

\* check_conflicts testing each cell without clearing it first.
check_conflicts_NoClear(cells) ==
    ConflictLoop_NoClear(cells,
                         [r \in Idx(GridSize(cells)) |->
                            [c \in Idx(GridSize(cells)) |-> FALSE]],
                         0)

\* check_conflicts on self.cells: [conflicts, cells].
check_conflicts(cells) ==
    ConflictLoop(cells,
                 [r \in Idx(GridSize(cells)) |->
                    [c \in Idx(GridSize(cells)) |-> FALSE]],
                 0)

\* What `last` records of a call: the method, whether its cell was a given,
\* what it returned (TRUE for methods returning nothing), and the length of
\* redo_stack when it was called.
Call(op, given, ret, g) ==
    [op |-> op, given |-> given, ret |-> ret,
     redo_before |-> Len(g.redo_stack)]

Snapshot(g) == [cells |-> g.cells, notes |-> g.notes]

\* main(): game = SudokuGame(difficulty=difficulty)
SessStart ==
    /\ game \in SudokuGame(None, None, "medium")
    /\ last = Call("new", FALSE, TRUE, game)
    /\ trail = <<>>

\* `if game.paused or show_win_overlay: continue` before every key but P.
KeysEnabled == ~(timer.paused \/ show_win_overlay)

\* The calls main() makes: a digit key gives set_cell(r, c, val, notes_mode)
\* with val >= 1, and 0 / Delete / Backspace give set_cell(r, c, 0).
Inputs ==
    {in \in [r : 0..MaxRow, c : Idx(SessionN), val : 0..MaxInput,
             is_note : BOOLEAN] : in.is_note => in.val >= 1}

\* game.set_cell(r, c, val, is_note)
SetCell ==
    /\ KeysEnabled
    /\ Len(game.move_stack) < MaxMoves
    /\ \E in \in Inputs :
        LET r == in.r  c == in.c  val == in.val  is_note == in.is_note IN
          /\ game' = set_cell(game, r, c, val, is_note)
          /\ last' = Call("set_cell", is_given(game, r, c), TRUE, game)
          /\ trail' = IF is_given(game, r, c) THEN trail
                      ELSE Append(trail, Snapshot(game))
    /\ UNCHANGED <<fillVars, genVars, storeVars, mainVars, clockVars,
                   pureVars>>

\* game.undo()
Undo ==
    /\ KeysEnabled
    /\ game' = undo(game)
    /\ last' = Call("undo", FALSE, TRUE, game)
    /\ trail' = <<>>
    /\ UNCHANGED <<fillVars, genVars, storeVars, mainVars, clockVars,
                   pureVars>>

\* game.redo()
Redo ==
    /\ KeysEnabled
    /\ game' = redo(game)
    /\ last' = Call("redo", FALSE, TRUE, game)
    /\ trail' = <<>>
    /\ UNCHANGED <<fillVars, genVars, storeVars, mainVars, clockVars,
                   pureVars>>

\* game.hint(r, c)
Hint ==
    /\ KeysEnabled
    /\ Len(game.move_stack) < MaxMoves
    /\ \E r \in 0..MaxRow, c \in Idx(SessionN) :
          /\ game' = hint(game, r, c).game
          /\ last' = Call("hint", is_given(game, r, c),
                          hint(game, r, c).ret, game)
          /\ trail' = IF hint(game, r, c).ret
                      THEN Append(trail, Snapshot(game))
                      ELSE trail
          /\ hinted' = IF hint(game, r, c).ret THEN hinted + 1 ELSE hinted
    /\ UNCHANGED <<fillVars, genVars, storeVars, show_win_overlay, clockVars,
                   pureVars>>

----------------------------------------------------------------------------
(* Persistence.  disk maps a file name to what the file holds: nothing     *)
(* (the file does not exist), text json.load rejects, or a JSON value.     *)
(* A method returns [raised, value]: whether an exception left it, and     *)
(* what it returned otherwise.  The clock fields of the object live in the *)
(* variable timer, so the methods that save take the timer as well.        *)

STATS_FILE == "sudoku_stats.json"
AUTOSAVE_FILE == "sudoku_autosave.json"
SAVE_SLOTS ==
    (1 :> "sudoku_save1.json") @@ (2 :> "sudoku_save2.json")
        @@ (3 :> "sudoku_save3.json")

Files == {STATS_FILE, AUTOSAVE_FILE} \cup {SAVE_SLOTS[s] : s \in DOMAIN SAVE_SLOTS}

\* The last slot the player saves to and loads from, and the longest
\* solving time.
MaxSlot == 1
MaxElapsed == 1

Missing == [kind |-> "missing"]
NotJson == [kind |-> "text"]
JsonArray == [kind |-> "array"]
JsonObject(d) == [kind |-> "object", d |-> d]

\* The values of the stats dict, with their JSON type.
Num(x) == [type |-> "number", v |-> x]
Str(x) == [type |-> "string", text |-> x]

Returned(v) == [raised |-> FALSE, value |-> v]
Raised == [raised |-> TRUE, value |-> None]

\* dict.get(k, default) and d[k] = v on a dict d.
Get(d, k, default) == IF k \in DOMAIN d THEN d[k] ELSE default
Put(d, k, v) == [x \in DOMAIN d \cup {k} |-> IF x = k THEN v ELSE d[x]]

\* list(s) of a set, in whatever order, and set(lst) of a list.
ListOf(s) ==
    CHOOSE lst \in [1..Cardinality(s) -> s] :
        {lst[i] : i \in 1..Cardinality(s)} = s
SetOf(lst) == {lst[i] : i \in DOMAIN lst}

\* load_fastest: every exception of the read is caught.
load_fastest(g, d) ==
    IF d[STATS_FILE] # Missing
    THEN IF d[STATS_FILE].kind = "object"
         THEN Returned(Get(d[STATS_FILE].d, g.difficulty, None))
         ELSE Returned(None)
    ELSE Returned(None)

\* save_fastest writing the new time whatever the stored one is.
save_fastest_Always(g, elapsed, d, ro) ==
    LET loaded == IF d[STATS_FILE] = Missing \/ d[STATS_FILE].kind = "text"
                  THEN JsonObject(<<>>)
                  ELSE d[STATS_FILE]
    IN IF loaded.kind # "object" \/ STATS_FILE \in ro
       THEN Raised @@ [disk |-> d]
       ELSE Returned(TRUE) @@
            [disk |-> [d EXCEPT ![STATS_FILE] =
                JsonObject(Put(loaded.d, g.difficulty, Num(elapsed)))]]

\* save_fastest: [raised, value, disk].  Only json.load sits in the try;
\* data.get, elapsed<prev and the open(STATS_FILE,"w") do not.
save_fastest(g, elapsed, d, ro) ==
    LET loaded == IF d[STATS_FILE] = Missing \/ d[STATS_FILE].kind = "text"
                  THEN JsonObject(<<>>)
                  ELSE d[STATS_FILE]
    IN IF loaded.kind # "object"
       THEN Raised @@ [disk |-> d]
       ELSE LET data == loaded.d
                prev == Get(data, g.difficulty, None)
            IN IF prev # None /\ prev.type # "number"
               THEN Raised @@ [disk |-> d]
               ELSE IF prev = None \/ elapsed < prev.v
                    THEN IF STATS_FILE \in ro
                         THEN Raised @@ [disk |-> d]
                         ELSE Returned(TRUE) @@
                              [disk |-> [d EXCEPT ![STATS_FILE] =
                                  JsonObject(Put(data, g.difficulty,
                                                 Num(elapsed)))]]
                    ELSE Returned(TRUE) @@ [disk |-> d]

\* The dict auto_save and save_to_slot write.
SaveData(g, tm) ==
    [puzzle |-> g.givens,
     cells |-> g.cells,
     notes |-> [r \in DOMAIN g.notes |->
                  [c \in DOMAIN g.notes[r] |-> ListOf(g.notes[r][c])]],
     difficulty |-> g.difficulty,
     start_time |-> tm.start_time,
     total_paused |-> tm.total_paused,
     hints_left |-> g.hints_left]

\* auto_save: [raised, value, disk]; `except Exception: pass`.
auto_save(g, tm, d, ro) ==
    Returned(None) @@
    [disk |-> IF AUTOSAVE_FILE \in ro THEN d
              ELSE [d EXCEPT ![AUTOSAVE_FILE] = JsonObject(SaveData(g, tm))]]

\* save_to_slot: [raised, value, disk].
save_to_slot(g, tm, slot, d, ro) ==
    Returned(None) @@
    [disk |-> IF slot \notin DOMAIN SAVE_SLOTS THEN d
              ELSE IF SAVE_SLOTS[slot] \in ro THEN d
              ELSE [d EXCEPT ![SAVE_SLOTS[slot]] =
                       JsonObject(SaveData(g, tm) @@ [is_slot |-> TRUE])]]

\* The try block of load_autosave and of load_from_slot on the content of
\* an existing file: the values it can return, a SudokuGame or None (any
\* exception gives None).  Without a solution of the saved givens the
\* constructor is called with solution=None.
LoadFile(content) ==
    IF content.kind # "object" THEN {None}
    ELSE LET data == content.d IN
         IF "puzzle" \notin DOMAIN data THEN {None}
         ELSE LET solved == solve_backtrack(data.puzzle)
                  sol == IF solved.ok THEN solved.grid ELSE None
                  built == SudokuGame(data.puzzle, sol,
                                      Get(data, "difficulty", "medium"))
              IN IF "cells" \notin DOMAIN data \/ "notes" \notin DOMAIN data
                 THEN {None}
                 ELSE {[gm EXCEPT
                          !.cells = data.cells,
                          !.notes = [r \in DOMAIN data.notes |->
                                       [c \in DOMAIN data.notes[r] |->
                                          SetOf(data.notes[r][c])]],
                          !.hints_left = Get(data, "hints_left", HintsBudget)]
                       : gm \in built}

\* The timer fields of the SudokuGame a load returns from content at time
\* t: those of a new object, with start_time and total_paused taken from
\* the file where it has them.
LoadedTimer(content, t) ==
    [start_time |-> Get(content.d, "start_time", t),
     total_paused |-> Get(content.d, "total_paused", 0),
     pause_start |-> 0,
     paused |-> FALSE]

\* load_autosave: the values it can return.
load_autosave(d) ==
    IF d[AUTOSAVE_FILE] = Missing THEN {None}
    ELSE LoadFile(d[AUTOSAVE_FILE])

\* load_from_slot: the values it can return.
load_from_slot(slot, d) ==
    IF slot \notin DOMAIN SAVE_SLOTS THEN {None}
    ELSE IF d[SAVE_SLOTS[slot]] = Missing THEN {None}
    ELSE LoadFile(d[SAVE_SLOTS[slot]])

\* Givens no digit assignment completes: the first row holds 1..n-1 and its
\* last cell sees n at the bottom of its column.
UnsolvableGivens(n) ==
    [r \in Idx(n) |-> [c \in Idx(n) |->
        IF r = 0 /\ c < n - 1 THEN c + 1
        ELSE IF r = n - 1 /\ c = n - 1 THEN n
        ELSE 0]]

\* A save file whose givens have no solution.
UnsolvableSave ==
    [puzzle |-> UnsolvableGivens(SessionN),
     cells |-> UnsolvableGivens(SessionN),
     notes |-> [r \in Idx(SessionN) |-> [c \in Idx(SessionN) |-> <<>>]],
     difficulty |-> "medium",
     hints_left |-> HintsBudget]

\* What the stats file and a save file are found to hold at start.
StatsContents ==
    {Missing, NotJson, JsonArray, JsonObject(<<>>),
     JsonObject([medium |-> Num(1)]), JsonObject([medium |-> Str("fast")]),
     JsonObject([easy |-> Num(1)]),
     JsonObject([easy |-> Num(0), medium |-> Num(1)])}
SaveContents ==
    {Missing, NotJson, JsonArray, JsonObject([difficulty |-> "medium"]),
     JsonObject(UnsolvableSave)}

\* What `result` records of a call: the method, how it ended, and what the file
\* it reads held when it was called.
Outcome(op, res, src) ==
    [op |-> op, raised |-> res.raised, value |-> res.value, src |-> src]

\* An exception that leaves a method leaves main() too.
Running == ~result.raised

StoreStart ==
    /\ disk \in {d \in [Files -> StatsContents \cup SaveContents] :
                   /\ d[STATS_FILE] \in StatsContents
                   /\ d[AUTOSAVE_FILE] \in SaveContents
                   /\ d[SAVE_SLOTS[1]] \in SaveContents
                   /\ \A s \in DOMAIN SAVE_SLOTS \ {1} :
                         d[SAVE_SLOTS[s]] = Missing}
    /\ unwritable \in {{}, Files}
    /\ result = Outcome("start", Returned(None), Missing)

\* self.fastest = self.load_fastest()
LoadFastest ==
    /\ Running
    /\ result' = Outcome("load_fastest", load_fastest(game, disk),
                      disk[STATS_FILE])
    /\ UNCHANGED <<disk, unwritable, fillVars, genVars, sessVars, mainVars,
                   clockVars, pureVars>>

\* game.save_fastest(elapsed)
SaveFastest ==
    /\ Running
    /\ \E elapsed \in 0..MaxElapsed :
          LET res == save_fastest(game, elapsed, disk, unwritable) IN
          /\ disk' = res.disk
          /\ result' = Outcome("save_fastest", res, disk[STATS_FILE])
    /\ UNCHANGED <<unwritable, fillVars, genVars, sessVars, mainVars,
                   clockVars, pureVars>>

\* game.auto_save()
AutoSave ==
    /\ Running
    /\ LET res == auto_save(game, timer, disk, unwritable) IN
          /\ disk' = res.disk
          /\ result' = Outcome("auto_save", res, Missing)
          /\ autosaved' = IF AUTOSAVE_FILE \in unwritable
                          THEN autosaved
                          ELSE [at |-> now, unpaused |-> unpaused]
    /\ UNCHANGED <<unwritable, timer, now, unpaused, fillVars, genVars,
                   sessVars, mainVars, pureVars>>

\* game.save_to_slot(slot)
SaveToSlot ==
    /\ Running
    /\ KeysEnabled
    /\ \E slot \in 1..MaxSlot :
          LET res == save_to_slot(game, timer, slot, disk, unwritable) IN
          /\ disk' = res.disk
          /\ result' = Outcome("save_to_slot", res, Missing)
    /\ UNCHANGED <<unwritable, fillVars, genVars, sessVars, mainVars,
                   clockVars, pureVars>>

\* loaded = SudokuGame.load_autosave(); if loaded: game = loaded
LoadAutosave ==
    /\ Running
    /\ KeysEnabled
    /\ \E v \in load_autosave(disk) :
          /\ result' = Outcome("load_autosave", Returned(v), disk[AUTOSAVE_FILE])
          /\ game' = IF v # None THEN v ELSE game
          /\ timer' = IF v # None
                      THEN LoadedTimer(disk[AUTOSAVE_FILE], now)
                      ELSE timer
    /\ UNCHANGED <<disk, unwritable, last, trail, now, unpaused, autosaved,
                   fillVars, genVars, mainVars, pureVars>>

\* loaded = SudokuGame.load_from_slot(slot); if loaded: game = loaded
LoadFromSlot ==
    /\ Running
    /\ KeysEnabled
    /\ \E slot \in 1..MaxSlot :
          \E v \in load_from_slot(slot, disk) :
             /\ result' = Outcome("load_from_slot", Returned(v),
                               disk[SAVE_SLOTS[slot]])
             /\ game' = IF v # None THEN v ELSE game
             /\ timer' = IF v # None
                         THEN LoadedTimer(disk[SAVE_SLOTS[slot]], now)
                         ELSE timer
    /\ UNCHANGED <<disk, unwritable, last, trail, now, unpaused, autosaved,
                   fillVars, genVars, mainVars, pureVars>>

StoreIdle == disk = None /\ unwritable = {} /\ result = None

----------------------------------------------------------------------------
(* The timer.  time.time() counts whole ticks.  pause_start holds 0 where  *)
(* the source holds None: the code only tests pause_start for truth before *)
(* using it, and time.time() itself is never 0.                            *)

\* The latest time the clock reaches.
MaxTime == 8

\* max(a, b)
Max(a, b) == IF a >= b THEN a ELSE b

\* start_time = time.time(); total_paused = 0.0; pause_start = None;
\* paused = False
NewTimer(t) ==
    [start_time |-> t, total_paused |-> 0, pause_start |-> 0,
     paused |-> FALSE]

get_elapsed_time(tm, t) ==
    IF tm.paused /\ tm.pause_start # 0
    THEN Max(0, tm.pause_start - tm.start_time - tm.total_paused)
    ELSE Max(0, t - tm.start_time - tm.total_paused)

\* toggle_pause whose resume does not add the pause to total_paused.
toggle_pause_NoAccumulate(tm, t) ==
    IF tm.paused
    THEN [tm EXCEPT !.pause_start = 0, !.paused = FALSE]
    ELSE [tm EXCEPT !.pause_start = t, !.paused = TRUE]

toggle_pause(tm, t) ==
    IF tm.paused
    THEN [tm EXCEPT
            !.total_paused = IF tm.pause_start # 0
                             THEN @ + (t - tm.pause_start)
                             ELSE @,
            !.pause_start = 0,
            !.paused = FALSE]
    ELSE [tm EXCEPT !.pause_start = t, !.paused = TRUE]

\* The timer of a session just constructed.
ClockStart ==
    /\ now = 1
    /\ timer = NewTimer(now)
    /\ unpaused = 0
    /\ autosaved = [at |-> 0, unpaused |-> 0]

\* Wall-clock time passes.
Tick ==
    /\ now < MaxTime
    /\ now' = now + 1
    /\ unpaused' = IF timer.paused THEN unpaused ELSE unpaused + 1
    /\ UNCHANGED <<timer, autosaved, fillVars, genVars, sessVars, storeVars,
                   mainVars, pureVars>>

\* The P key: toggle_pause(game), whether paused or not.
TogglePause ==
    /\ timer' = toggle_pause(timer, now)
    /\ UNCHANGED <<now, unpaused, autosaved, fillVars, genVars, sessVars,
                   storeVars, mainVars, pureVars>>

ClockIdle == timer = None /\ now = 0 /\ unpaused = 0 /\ autosaved = None

----------------------------------------------------------------------------
(* The end of a frame of main().                                           *)

\* conflicts = game.check_conflicts() of draw_board, once a frame
Conflicts ==
    /\ game' = [game EXCEPT !.cells = check_conflicts(game.cells).cells]
    /\ last' = Call("check_conflicts", FALSE,
                    \E r \in Idx(SessionN), c \in Idx(SessionN) :
                        check_conflicts(game.cells).conflicts[r][c],
                    game)
    /\ UNCHANGED <<trail, fillVars, genVars, storeVars, mainVars, clockVars,
                   pureVars>>

MainStart == show_win_overlay = FALSE /\ hinted = 0

\* No file exists yet and every file can be written.
StoreFresh ==
    /\ disk = [f \in Files |-> Missing]
    /\ unwritable = {}
    /\ result = Outcome("start", Returned(None), Missing)

\* if game.is_complete() and not show_win_overlay: the overlay is raised
\* and the elapsed time goes to save_fastest.
WinCheck ==
    /\ is_complete(game) /\ ~show_win_overlay
    /\ show_win_overlay' = TRUE
    /\ LET res == save_fastest(game, get_elapsed_time(timer, now), disk,
                               unwritable)
       IN /\ disk' = res.disk
          /\ result' = Outcome("save_fastest", res, disk[STATS_FILE])
    /\ UNCHANGED <<unwritable, hinted, fillVars, genVars, sessVars, clockVars,
                   pureVars>>

----------------------------------------------------------------------------
(* A session on what generate_puzzle returns when generate_full_solution   *)
(* came back with the grid unfilled: puzzle and solution both all zero.    *)
(* The grid is small enough for play to fill it.                           *)

\* Side of this session's grid (GRID_SIZE = 9 in the source, scaled).
BlankN == 2

\* Moves on the undo stack at most.
BlankMoves == 4

BlankStart ==
    /\ game = NewGame(EmptyGrid(BlankN), EmptyGrid(BlankN), "medium")
    /\ last = Call("new", FALSE, TRUE, game)
    /\ trail = <<>>

\* game.set_cell(r, c, val) on any cell: a digit key
BlankSetCell ==
    /\ KeysEnabled
    /\ Len(game.move_stack) < BlankMoves
    /\ \E r \in Idx(BlankN), c \in Idx(BlankN), val \in Digits(BlankN) :
          /\ game' = set_cell(game, r, c, val, FALSE)
          /\ last' = Call("set_cell", is_given(game, r, c), TRUE, game)
    /\ UNCHANGED <<trail, fillVars, genVars, storeVars, mainVars, clockVars,
                   pureVars>>

----------------------------------------------------------------------------
(* The grid functions on their own: valid, solve_backtrack and             *)
(* check_conflicts take any list of lists, so they are applied here to     *)
(* count_solutions and check_conflicts take any list of lists, so they are *)
(* applied here to grids of any content: a full valid grid with some cells *)
(* of its first band of boxes overwritten by any value, 0 included, and    *)
(* the same grid with the other bands emptied and some of the emptied      *)
(* cells given any value.                                                  *)

\* Side of these grids (GRID_SIZE = 9 in the source, scaled).
PureN == 4

\* How many cells of the full grid are overwritten at most.
MaxAltered == 2

FullGrid == solve_backtrack(EmptyGrid(PureN)).grid

AlterCells == Idx(BoxH(PureN)) \X Idx(PureN)

\* The full grid with every band of boxes but the first one emptied, and
\* the emptied cells.
HalfGrid ==
    [r \in Idx(PureN) |-> [c \in Idx(PureN) |->
        IF r \in Idx(BoxH(PureN)) THEN FullGrid[r][c] ELSE 0]]

EmptiedCells == (Idx(PureN) \ Idx(BoxH(PureN))) \X Idx(PureN)

\* base with at most MaxAltered of the given cells overwritten.
Altered(base, cells) ==
    UNION {{[r \in Idx(PureN) |-> [c \in Idx(PureN) |->
                IF <<r, c>> \in S THEN f[<<r, c>>] ELSE base[r][c]]] :
            f \in [S -> 0..PureN]} :
           S \in {T \in SUBSET cells : Cardinality(T) <= MaxAltered}}

InputGrids == Altered(FullGrid, AlterCells) \cup Altered(HalfGrid, EmptiedCells)

PureStart == pgrid \in InputGrids /\ pout = [op |-> "start"]

\* No call was made on the grid yet.
Fresh == pout.op = "start"

\* valid(grid, r, c, val)
Valid ==
    \E r \in Idx(PureN), c \in Idx(PureN), val \in Digits(PureN) :
        /\ Fresh
        /\ pout' = [op |-> "valid", r |-> r, c |-> c, val |-> val,
                    ret |-> valid(pgrid, r, c, val)]
        /\ UNCHANGED <<pgrid, fillVars, genVars, sessVars, storeVars,
                       mainVars, clockVars>>

\* solve_backtrack(grid)
SolveBacktrack ==
    /\ Fresh
    /\ pgrid' = solve_backtrack(pgrid).grid
    /\ pout' = [op |-> "solve_backtrack", entry |-> pgrid,
                ret |-> solve_backtrack(pgrid).ok]
    /\ UNCHANGED <<fillVars, genVars, sessVars, storeVars, mainVars,
                   clockVars>>

\* check_conflicts() of a session whose cells are the grid
CheckConflicts ==
    /\ Fresh
    /\ pgrid' = check_conflicts(pgrid).cells
    /\ pout' = [op |-> "check_conflicts", entry |-> pgrid,
                ret |-> check_conflicts(pgrid).conflicts]
    /\ UNCHANGED <<fillVars, genVars, sessVars, storeVars, mainVars,
                   clockVars>>

\* count_solutions(grid, limit=2)
CountSolutions ==
    /\ Fresh
    /\ pgrid' = count_solutions(pgrid, 2).grid
    /\ pout' = [op |-> "count_solutions", entry |-> pgrid,
                ret |-> count_solutions(pgrid, 2).count]
    /\ UNCHANGED <<fillVars, genVars, sessVars, storeVars, mainVars,
                   clockVars>>

PureIdle == pgrid = None /\ pout = None

----------------------------------------------------------------------------
(* Specifications.                                                         *)

SessIdle == game = None /\ last = None /\ trail = <<>>

FillInit ==
    FillStart /\ GenIdle /\ SessIdle /\ StoreIdle /\ MainStart /\ ClockIdle
    /\ PureIdle

FillNext ==
    \/ FillReturnTrue
    \/ FillShuffle
    \/ FillTry
    \/ FillSkip
    \/ FillReturnFalse

\* generate_full_solution() alone, step by step.
SpecFill == FillInit /\ [][FillNext]_vars

GenInit ==
    GenStart /\ FillIdle /\ SessIdle /\ StoreIdle /\ MainStart /\ ClockIdle
    /\ PureIdle

GenNext ==
    \/ GenSolution
    \/ GenPickEmpty
    \/ GenRemove
    \/ GenRestore
    \/ GenReturn

\* generate_puzzle(difficulty).
SpecGen == GenInit /\ [][GenNext]_vars

\* The removal loop is straight-line code in one thread: a step that can be
\* taken is taken.
SpecGenFair == SpecGen /\ WF_vars(GenNext)

Init ==
    SessStart /\ MainStart /\ ClockStart /\ StoreFresh /\ FillIdle /\ GenIdle
    /\ PureIdle

Next ==
    \/ SetCell
    \/ Undo
    \/ Redo
    \/ Hint
    \/ WinCheck

\* A session under any sequence of set_cell, hint, undo and redo.
Spec == Init /\ [][Next]_vars

StoreInit ==
    SessStart /\ StoreStart /\ MainStart /\ ClockStart /\ FillIdle /\ GenIdle
    /\ PureIdle

StoreNext ==
    \/ LoadFastest
    \/ SaveFastest
    \/ AutoSave
    \/ SaveToSlot
    \/ LoadAutosave
    \/ LoadFromSlot

\* A session and the files under any sequence of persistence calls.
SpecStore == StoreInit /\ [][StoreNext]_vars

ClockInit ==
    SessStart /\ MainStart /\ ClockStart /\ StoreIdle /\ FillIdle /\ GenIdle
    /\ PureIdle

ClockNext ==
    \/ Tick
    \/ TogglePause

\* The timer of a session under any sequence of pause toggles as time passes.
SpecClock == ClockInit /\ [][ClockNext]_vars

PureInit ==
    PureStart /\ FillIdle /\ GenIdle /\ SessIdle /\ StoreIdle /\ MainStart
    /\ ClockIdle

PureNext ==
    \/ Valid
    \/ SolveBacktrack
    \/ CountSolutions
    \/ CheckConflicts

\* One call of a grid function on a grid of any content.
SpecPure == PureInit /\ [][PureNext]_vars

BlankInit ==
    BlankStart /\ MainStart /\ ClockStart /\ StoreFresh /\ FillIdle /\ GenIdle
    /\ PureIdle

BlankNext ==
    \/ BlankSetCell
    \/ Undo
    \/ Redo
    \/ WinCheck

\* Play on the session of an all-zero puzzle: digits, undo and redo.
SpecBlank == BlankInit /\ [][BlankNext]_vars

BlankStoreInit ==
    BlankStart /\ StoreStart /\ MainStart /\ ClockStart /\ FillIdle /\ GenIdle
    /\ PureIdle

\* The session of an all-zero puzzle and the files under any sequence of
\* persistence calls.
SpecBlankStore == BlankStoreInit /\ [][StoreNext]_vars

PlayNext ==
    \/ SetCell
    \/ Undo
    \/ Redo
    \/ Hint
    \/ Conflicts

\* A session under any sequence of set_cell, hint, undo, redo and
\* check_conflicts calls.
SpecPlay == Init /\ [][PlayNext]_vars

SaveClockInit ==
    SessStart /\ MainStart /\ ClockStart /\ StoreFresh /\ FillIdle /\ GenIdle
    /\ PureIdle

SaveClockNext ==
    \/ Tick
    \/ TogglePause
    \/ AutoSave
    \/ LoadAutosave

\* The timer under pause toggles, the periodic auto_save and the L key as
\* time passes.
SpecSaveClock == SaveClockInit /\ [][SaveClockNext]_vars

----------------------------------------------------------------------------
(* Claims.                                                                 *)

\* What the outermost fill() leaves behind: a completed grid when it
\* returned True, the all-zero grid when it returned False.
FillOutcomeShape ==
    fpc = "done" =>
        \/ fres = "True" /\ IsFull(fgrid) /\ NoRepeat(fgrid)
        \/ fres = "False" /\ fgrid = EmptyGrid(FillN)

\* C2: generate_full_solution always returns a completed grid: when it
\* returns, the grid has no empty cell and no digit repeated in a row,
\* column or box, whatever the shuffles were.
C2_FullSolutionAlwaysComplete ==
    fpc = "done" => (IsFull(fgrid) /\ NoRepeat(fgrid))

\* C1: the working grid of generate_puzzle has exactly one solution after
\* every iteration of the removal loop and on return, and on return
\* solve_backtrack over a copy of the puzzle gives the returned solution.
C1_PuzzleHasOneSolution ==
    gpc \in {"loop", "done"} =>
        /\ count_solutions(puzzle, 2).count = 1
        /\ gpc = "done" => solve_backtrack(puzzle).grid = solution

\* C1, C9 for the runs in which generate_full_solution returned a completed
\* grid: one solution, the returned one, and the clue count within bounds.
GenOnCompletedSolution ==
    (gpc \in {"loop", "done"} /\ IsFull(solution)) =>
        /\ count_solutions(puzzle, 2).count = 1
        /\ Completions(puzzle) = {solution}
        /\ solve_backtrack(puzzle).grid = solution
        /\ ClueCount(puzzle) >= Target(difficulty)
        /\ ClueCount(puzzle) <= GenN * GenN

\* C9: the puzzle of generate_puzzle never has fewer non-zero cells than the
\* difficulty's target, nor more than the grid has cells, in the loop and on
\* return.
C9_ClueCountBound ==
    gpc \in {"loop", "done"} =>
        /\ ClueCount(puzzle) >= Target(difficulty)
        /\ ClueCount(puzzle) <= GenN * GenN

\* C10: the removal loop terminates: every iteration run has increased
\* attempts by one, attempts never exceeds max_attempts, the loop is left as
\* soon as attempts reaches max_attempts or the clue count reaches the
\* target, and generate_puzzle returns.
C10_RemovalLoopTerminates ==
    /\ [](iters = attempts /\ attempts <= max_attempts(difficulty))
    /\ [][(gpc = "loop" /\ (attempts >= max_attempts(difficulty)
                            \/ ClueCount(puzzle) <= Target(difficulty)))
             => gpc' = "done"]_vars
    /\ <>(gpc = "done")

\* C10 witness: a return with the budget used up and the target not reached,
\* after iterations on empty and on filled cells.
C10_Witness ==
    /\ gpc = "done"
    /\ IsFull(solution)
    /\ attempts = max_attempts(difficulty)
    /\ ClueCount(puzzle) > Target(difficulty)
    /\ GenN * GenN - ClueCount(puzzle) < attempts
    /\ ClueCount(puzzle) < GenN * GenN

\* C3: set_cell on a given cell changes nothing, for every value and both
\* values of is_note: the session is left exactly as it was (cells, notes,
\* undo stack, redo stack).
C3_GivensImmutable ==
    \A r \in Idx(SessionN), c \in Idx(SessionN),
       v \in 0..SessionN, n \in BOOLEAN :
        is_given(game, r, c) => set_cell(game, r, c, v, n) = game

\* C3 witness: set_cell was just called on a given cell of a session that
\* has moves to undo and to redo.
C3_Witness ==
    /\ last.op = "set_cell" /\ last.given
    /\ game.move_stack # <<>> /\ game.redo_stack # <<>>

RECURSIVE UndoTimes(_, _), RedoTimes(_, _)
UndoTimes(g, n) == IF n = 0 THEN g ELSE UndoTimes(undo(g), n - 1)
RedoTimes(g, n) == IF n = 0 THEN g ELSE RedoTimes(redo(g), n - 1)

\* C4: after n set_cell calls on non-given cells, n undo() calls give back
\* the cells and notes from before the n calls, and n redo() calls then give
\* back the cells and notes from after them.
C4_UndoRedoRoundTrip ==
    \A n \in 1..Len(trail) :
        LET before == trail[Len(trail) - n + 1]
            undone == UndoTimes(game, n)
            redone == RedoTimes(undone, n)
        IN /\ undone.cells = before.cells
           /\ undone.notes = before.notes
           /\ redone.cells = game.cells
           /\ redone.notes = game.notes

\* C4 witness: the same note of the same cell toggled twice in a row.
C4_Witness ==
    /\ Len(trail) >= 2
    /\ Len(game.move_stack) >= 2
    /\ LET k == Len(game.move_stack)
           a == game.move_stack[k - 1]
           b == game.move_stack[k]
       IN /\ a.is_note /\ b.is_note
          /\ a.r = b.r /\ a.c = b.c /\ a.new_val = b.new_val

\* C5: a set_cell on a non-given cell, or a successful hint, leaves the redo
\* stack empty, and a redo() right after it changes nothing.
C5_RedoInvalidated ==
    (last.op \in {"set_cell", "hint"} /\ ~last.given /\ last.ret) =>
        /\ game.redo_stack = <<>>
        /\ redo(game) = game

\* C5 witness: set_cell on a non-given cell called with moves to redo.
C5_Witness ==
    /\ last.op = "set_cell" /\ ~last.given
    /\ last.redo_before > 0
    /\ game.redo_stack = <<>>

\* C6: every cell holding a digit has an empty note set.
C6_NotesValueExclusive ==
    \A r \in Idx(SessionN), c \in Idx(SessionN) :
        game.cells[r][c] # 0 => game.notes[r][c] = {}

\* C7: load_autosave and load_from_slot return None whenever the file they
\* read holds givens that solve_backtrack cannot solve; they never return a
\* session object then.
C7_UnsolvableSaveLoadsNone ==
    (/\ result.op \in {"load_autosave", "load_from_slot"}
     /\ result.src.kind = "object"
     /\ "puzzle" \in DOMAIN result.src.d
     /\ ~solve_backtrack(result.src.d.puzzle).ok)
        => result.value = None

\* C8: no exception leaves load_fastest, save_fastest, auto_save,
\* save_to_slot, load_autosave or load_from_slot, whatever the files hold
\* and whether or not they can be written.
C8_NoStorageExceptionEscapes ==
    result.op \in {"load_fastest", "save_fastest", "auto_save",
                   "save_to_slot", "load_autosave", "load_from_slot"}
        => ~result.raised

\* The five methods other than save_fastest never let an exception out.
StorageExceptionOnlyFromSaveFastest ==
    result.raised => result.op = "save_fastest"

\* C11: hint(r, c) with no hint left or on a given returns False and leaves
\* the session as it was; in every other case it returns True, puts the
\* solution's digit in the cell, empties the cell's notes, pushes exactly
\* one undo entry and takes exactly one hint off hints_left.
C11_HintContract ==
    \A r \in Idx(SessionN), c \in Idx(SessionN) :
        LET h == hint(game, r, c) IN
        IF game.hints_left <= 0 \/ game.givens[r][c] # 0
        THEN /\ h.ret = FALSE
             /\ h.game = game
        ELSE /\ h.ret = TRUE
             /\ h.game.cells =
                   [game.cells EXCEPT ![r][c] = game.solution[r][c]]
             /\ h.game.notes = [game.notes EXCEPT ![r][c] = {}]
             /\ Len(h.game.move_stack) = Len(game.move_stack) + 1
             /\ SubSeq(h.game.move_stack, 1, Len(game.move_stack))
                   = game.move_stack
             /\ h.game.hints_left = game.hints_left - 1

\* C11 witness: hint was just refused on a non-given cell because no hint
\* is left, in a session with a move to undo.
C11_Witness ==
    /\ last.op = "hint" /\ ~last.given /\ ~last.ret
    /\ game.hints_left = 0
    /\ game.move_stack # <<>>

\* C12: hints_left starts at the budget, stays within 0..budget and is the
\* budget less the hints that succeeded (so at most that many succeed), and
\* no step of the session, an undo included, raises it.
C12_HintBudgetNeverRestored ==
    /\ [](/\ game.hints_left \in 0..HintsBudget
          /\ hinted = HintsBudget - game.hints_left
          /\ hinted <= HintsBudget)
    /\ [][game'.hints_left <= game.hints_left]_vars

\* C12 witness: a hint was undone and the budget is still one short.
C12_Witness ==
    /\ last.op = "undo"
    /\ hinted = 1
    /\ game.hints_left = HintsBudget - 1
    /\ game.move_stack = <<>>
    /\ game.cells = game.givens

\* The cells other than (r, c) in its row, its column or its box.
Peers(n, r, c) ==
    {p \in Idx(n) \X Idx(n) :
        /\ p # <<r, c>>
        /\ \/ p[1] = r
           \/ p[2] = c
           \/ /\ p[1] \div BoxH(n) = r \div BoxH(n)
              /\ p[2] \div BoxW(n) = c \div BoxW(n)}

\* Some other cell of the row, column or box of (r, c) holds val.
HeldByPeer(grid, r, c, val) ==
    \E p \in Peers(GridSize(grid), r, c) : grid[p[1]][p[2]] = val

\* C13: check_conflicts marks a cell True exactly when it is non-zero and
\* another cell of its row, column or box holds the same digit, and it
\* leaves the cells as it found them.
C13_ConflictsExact ==
    pout.op = "check_conflicts" =>
        /\ pgrid = pout.entry
        /\ \A r \in Idx(PureN), c \in Idx(PureN) :
              pout.ret[r][c] =
                 (/\ pout.entry[r][c] # 0
                  /\ HeldByPeer(pout.entry, r, c, pout.entry[r][c]))

\* C13 witness: check_conflicts ran on a grid with one duplicated pair in
\* a row and on nothing else in conflict: both cells of the pair are
\* marked, no other cell is, and the grid also has an empty cell.
C13_Witness ==
    /\ pout.op = "check_conflicts"
    /\ \E r \in Idx(PureN), c1 \in Idx(PureN), c2 \in Idx(PureN) :
          /\ c1 # c2
          /\ pout.entry[r][c1] = pout.entry[r][c2]
          /\ \A i \in Idx(PureN), j \in Idx(PureN) :
                pout.ret[i][j] = (i = r /\ j \in {c1, c2})
    /\ ~IsFull(pout.entry)

\* C14: once every cell equals the solution, no later set_cell, undo, redo
\* or hint changes a cell, whether or not the main loop has raised the win
\* overlay yet.
C14_CompleteIsTerminal ==
    [][is_complete(game) => game'.cells = game.cells]_vars

\* The record the stats file holds for difficulty k, None when the file is
\* missing, is not a JSON object or has no such key.
StoredBest(d, k) ==
    IF d[STATS_FILE].kind = "object"
    THEN Get(d[STATS_FILE].d, k, None)
    ELSE None

\* C15: save_fastest writes the stats file only when the session's
\* difficulty has no record or the new time is strictly smaller than the
\* stored one, and then it stores the new time and leaves the records of
\* the other difficulties alone; with an equal or larger time nothing is
\* written.  Over any sequence of calls a stored time never increases and
\* a record of another difficulty never changes.
C15_BestTimeOnlyImproves ==
    /\ [](\A elapsed \in 0..MaxElapsed :
            LET res == save_fastest(game, elapsed, disk, unwritable)
                prev == StoredBest(disk, game.difficulty)
            IN /\ res.disk # disk =>
                    /\ prev = None \/ (prev.type = "number" /\ elapsed < prev.v)
                    /\ StoredBest(res.disk, game.difficulty) = Num(elapsed)
                    /\ \A k \in Difficulties \ {game.difficulty} :
                          StoredBest(res.disk, k) = StoredBest(disk, k)
                    /\ \A f \in Files \ {STATS_FILE} : res.disk[f] = disk[f]
               /\ (prev # None /\ prev.type = "number" /\ elapsed >= prev.v)
                     => res.disk = disk)
    /\ [][\A k \in Difficulties :
            LET old == StoredBest(disk, k)
                new == StoredBest(disk', k)
            IN /\ k # game.difficulty => new = old
               /\ (old # None /\ old.type = "number") =>
                     /\ new # None
                     /\ new.type = "number"
                     /\ new.v <= old.v]_vars

\* C15 witness: save_fastest has just replaced a stored time by a smaller
\* one in a file that also holds the record of another difficulty.
C15_Witness ==
    /\ result.op = "save_fastest"
    /\ ~result.raised
    /\ result.src = JsonObject([easy |-> Num(0), medium |-> Num(1)])
    /\ disk[STATS_FILE] = JsonObject([easy |-> Num(0), medium |-> Num(0)])

\* C16: the elapsed time is the wall-clock time spent un-paused since the
\* start; it stands still from a pause to the matching resume however much
\* time passes, the resume itself does not change it, and it never
\* decreases.
C16_ClockFrozenWhilePaused ==
    /\ [](get_elapsed_time(timer, now) = unpaused)
    /\ [][(timer.paused /\ timer'.paused) =>
            get_elapsed_time(timer', now') = get_elapsed_time(timer, now)]_vars
    /\ [][(timer.paused /\ ~timer'.paused) =>
            get_elapsed_time(timer', now') = get_elapsed_time(timer, now)]_vars
    /\ [][get_elapsed_time(timer', now') >= get_elapsed_time(timer, now)]_vars

\* C16 witness: the session was paused, resumed and paused again, time has
\* passed in every one of these phases, and the clock shows the time of
\* the un-paused phases only.
C16_Witness ==
    /\ timer.paused
    /\ timer.total_paused > 0
    /\ now > timer.pause_start
    /\ get_elapsed_time(timer, now) > 1
    /\ get_elapsed_time(timer, now) < now - timer.start_time - timer.total_paused

\* from lost its last entry and to gained one entry for the same move (same
\* cell, same new value, same kind); nothing else moved.
MovedOne(from, to, from2, to2) ==
    /\ from2 = SubSeq(from, 1, Len(from) - 1)
    /\ Len(to2) = Len(to) + 1
    /\ SubSeq(to2, 1, Len(to)) = to
    /\ LET m == from[Len(from)]
           k == to2[Len(to2)]
       IN k.r = m.r /\ k.c = m.c /\ k.new_val = m.new_val
          /\ k.is_note = m.is_note
    /\ Len(from2) + Len(to2) = Len(from) + Len(to)

\* C17: undo with an empty undo stack and redo with an empty redo stack
\* leave the session as it is; with a non-empty stack each moves exactly
\* one entry from its own stack to the other, so the two lengths keep
\* their sum.
C17_EmptyStackNoOp ==
    /\ IF game.move_stack = <<>>
       THEN undo(game) = game
       ELSE MovedOne(game.move_stack, game.redo_stack,
                     undo(game).move_stack, undo(game).redo_stack)
    /\ IF game.redo_stack = <<>>
       THEN redo(game) = game
       ELSE MovedOne(game.redo_stack, game.move_stack,
                     redo(game).redo_stack, redo(game).move_stack)

\* C17 witness: undo was called and left an entry on each stack, so undo
\* and redo both have an entry to move; the undo before it had run the
\* redo stack from empty.
C17_Witness ==
    /\ last.op = "undo"
    /\ Len(game.move_stack) = 1
    /\ Len(game.redo_stack) = 1

\* C17 witness of the empty case: undo was called with nothing to undo.
C17_WitnessEmpty ==
    /\ last.op = "undo"
    /\ game.move_stack = <<>>
    /\ game.redo_stack = <<>>

\* C18: is_complete() is true iff every cell equals the solution's cell,
\* and a session reached by play on a generated puzzle whose grid is full
\* with check_conflicts() all False is complete.
C18_FullConflictFreeIsComplete ==
    /\ is_complete(game) <=> game.cells = game.solution
    /\ (/\ IsFull(game.cells)
        /\ \A r \in Idx(BlankN), c \in Idx(BlankN) :
              ~check_conflicts(game.cells).conflicts[r][c])
          => is_complete(game)

\* Grid full is the grid whole with exactly one cell zeroed.
OneCellZeroed(grid, whole) ==
    \E r \in Idx(PureN), c \in Idx(PureN) :
        whole[r][c] # 0 /\ grid = SetAt(whole, r, c, 0)

\* C19: whenever solve_backtrack returns True, whatever the grid it was
\* given, the grid is a full solution: no empty cell, no digit repeated in
\* a row, column or box, and every cell that was non-zero on entry keeps
\* its value; a valid full grid with one cell zeroed gets that digit back.
C19_SolveTrueMeansSolved ==
    (pout.op = "solve_backtrack" /\ pout.ret) =>
        /\ IsFull(pgrid)
        /\ NoRepeat(pgrid)
        /\ \A r \in Idx(PureN), c \in Idx(PureN) :
              pout.entry[r][c] # 0 => pgrid[r][c] = pout.entry[r][c]
        /\ OneCellZeroed(pout.entry, FullGrid) => pgrid = FullGrid

\* The part of C19 about a valid full grid with one cell zeroed: the call
\* returns True and the grid is the full grid again.
SolveRestoresZeroedCell ==
    (pout.op = "solve_backtrack" /\ OneCellZeroed(pout.entry, FullGrid)) =>
        pout.ret /\ pgrid = FullGrid

\* C20: valid(grid, r, c, val) is true iff no cell other than (r, c) in
\* the row, the column or the box of (r, c) holds val, whatever (r, c)
\* itself holds.
C20_ValidIgnoresTargetCell ==
    pout.op = "valid" =>
        (pout.ret <=> ~HeldByPeer(pgrid, pout.r, pout.c, pout.val))

\* valid as the code computes it: true iff no cell of the row, the column
\* or the box holds val, the cell (r, c) included.
ValidCountsTargetCell ==
    pout.op = "valid" =>
        (pout.ret <=> /\ ~HeldByPeer(pgrid, pout.r, pout.c, pout.val)
                      /\ pgrid[pout.r][pout.c] # pout.val)

\* C21: on a grid whose non-zero cells are conflict-free,
\* count_solutions(grid, 2) returns 0 iff the grid has no completion, 1 iff
\* it has exactly one and 2 or more iff it has at least two; and on every
\* grid it returns with the grid as it was passed in.
C21_CountDecidesUniqueness ==
    pout.op = "count_solutions" =>
        /\ pgrid = pout.entry
        /\ NoRepeat(pout.entry) =>
              LET k == Cardinality(Completions(pout.entry)) IN
              /\ pout.ret = 0 <=> k = 0
              /\ pout.ret = 1 <=> k = 1
              /\ pout.ret >= 2 <=> k >= 2

\* C21 witness: count_solutions stopped at the limit on a conflict-free
\* grid with more than two completions.
C21_Witness ==
    /\ pout.op = "count_solutions"
    /\ pout.ret >= 2
    /\ NoRepeat(pout.entry)
    /\ Cardinality(Completions(pout.entry)) > 2
    /\ pgrid = pout.entry

\* C21 witness of the other outcomes: a conflict-free grid with empty
\* cells and no completion, counted 0.
C21_WitnessNone ==
    /\ pout.op = "count_solutions"
    /\ pout.ret = 0
    /\ NoRepeat(pout.entry)
    /\ ~IsFull(pout.entry)

\* C22: when solve_backtrack returns False the grid is as it was on entry.
C22_SolveFalseRestoresGrid ==
    (pout.op = "solve_backtrack" /\ ~pout.ret) => pgrid = pout.entry

\* C22 witness: solve_backtrack returned False on a conflict-free grid
\* whose first empty cell has a digit to try, so the search filled cells
\* before it gave up.
C22_Witness ==
    /\ pout.op = "solve_backtrack"
    /\ ~pout.ret
    /\ NoRepeat(pout.entry)
    /\ LET e == find_empty(pout.entry) IN
       /\ e # None
       /\ \E v \in Digits(PureN) : valid(pout.entry, e[1], e[2], v)
    /\ pgrid = pout.entry

\* C23: the elapsed time of a session loaded from an autosave leaves out
\* every interval the saved session had spent paused, the pause in
\* progress at the save included: it is at most the un-paused time of the
\* saved session at the save plus the time gone by since.
C23_PausedTimeNeverCounted ==
    (result.op = "load_autosave" /\ result.value # None) =>
        get_elapsed_time(timer, now)
            <= autosaved.unpaused + (now - autosaved.at)

\* What the code does instead: the loaded session counts all the time
\* since start_time but the pauses that had ended when the file was
\* written.
LoadedClockCountsFromStart ==
    (result.op = "load_autosave" /\ result.value # None) =>
        get_elapsed_time(timer, now)
            <= now - result.src.d.start_time - result.src.d.total_paused

\* The session v with timer tm2 is the session g with timer tm as a save
\* and a load should give it back: same givens, cells, notes, difficulty,
\* hints_left, start_time and total_paused, the same solution when sol is
\* asked for, and no history, so that undo does nothing.
SameSession(v, tm2, g, tm, sol) ==
    /\ v # None
    /\ v.givens = g.givens
    /\ v.cells = g.cells
    /\ v.notes = g.notes
    /\ v.difficulty = g.difficulty
    /\ v.hints_left = g.hints_left
    /\ tm2.start_time = tm.start_time
    /\ tm2.total_paused = tm.total_paused
    /\ sol => v.solution = g.solution
    /\ v.move_stack = <<>>
    /\ v.redo_stack = <<>>
    /\ undo(v) = v

\* auto_save then load_autosave, and save_to_slot then load_from_slot, on
\* the session as it is now, where the file can be written.
RoundTrips(sol) ==
    /\ AUTOSAVE_FILE \notin unwritable =>
          LET d2 == auto_save(game, timer, disk, unwritable).disk IN
          \A v \in load_autosave(d2) :
              SameSession(v, LoadedTimer(d2[AUTOSAVE_FILE], now),
                          game, timer, sol)
    /\ \A slot \in 1..MaxSlot :
          SAVE_SLOTS[slot] \notin unwritable =>
             LET d2 == save_to_slot(game, timer, slot, disk, unwritable).disk
             IN \A v \in load_from_slot(slot, d2) :
                   SameSession(v, LoadedTimer(d2[SAVE_SLOTS[slot]], now),
                               game, timer, sol)

\* C24: a save followed by a load, with no storage failure, gives back a
\* session with the same givens, cells, notes, difficulty, hints_left,
\* start_time and total_paused and with empty undo and redo stacks; when
\* the session is on the puzzle the generator returned, the solution
\* recomputed from the givens is the same solution too.
C24_SaveLoadRoundTrip ==
    RoundTrips(/\ game.givens = EmptyGrid(BlankN)
               /\ game.solution = EmptyGrid(BlankN))

\* The round trip without the solution: it holds on every session.
RoundTripButSolution == RoundTrips(FALSE)

\* The round trip with the solution, on the sessions whose puzzle has the
\* stored solution as its only completion.
RoundTripOnUniquePuzzle ==
    RoundTrips(/\ IsFull(game.solution)
               /\ Completions(game.givens) = {game.solution})

\* C25: in every state reached from a new session by set_cell, hint, undo,
\* redo and check_conflicts, every given cell holds its given digit, which
\* is the solution's digit, and has no notes; and undo() called until the
\* undo stack is empty gives cells equal to givens and no note anywhere.
C25_GivensFixedHistoryReplays ==
    /\ \A r \in Idx(SessionN), c \in Idx(SessionN) :
          game.givens[r][c] # 0 =>
             /\ game.cells[r][c] = game.givens[r][c]
             /\ game.givens[r][c] = game.solution[r][c]
             /\ game.notes[r][c] = {}
    /\ LET start == UndoTimes(game, Len(game.move_stack)) IN
       /\ start.move_stack = <<>>
       /\ start.cells = game.givens
       /\ \A r \in Idx(SessionN), c \in Idx(SessionN) :
             start.notes[r][c] = {}

\* C25 witness: check_conflicts has just run and found a conflict on a
\* session with a full undo stack, a placed digit and a note.
C25_Witness ==
    /\ last.op = "check_conflicts"
    /\ last.ret
    /\ Len(game.move_stack) = MaxMoves
    /\ game.cells # game.givens
    /\ \E r \in Idx(SessionN), c \in Idx(SessionN) : game.notes[r][c] # {}

====
